---- MODULE Spec2Model ----
(***************************************************************************)
(* Family Deal Hacker (app.py): the extraction / normalisation / scoring / *)
(* ranking / deep-link pipeline of the Streamlit script, as a state        *)
(* machine.                                                                *)
(*                                                                         *)
(* Conventions of the model                                                *)
(*  - A Python str that the code inspects is a sequence of characters;     *)
(*    a character is a one-element TLA+ string, with the non-ASCII         *)
(*    characters named: "GBP" is the pound sign, "ARROW" the right arrow,  *)
(*    "i_acute", "e_acute", "n_tilde" the accented letters.                *)
(*  - Python None is NoneText for a str-valued result and NoneNum for a    *)
(*    number-valued result (no str of the program holds the character      *)
(*    "None" and no number of the program is negative one).                *)
(*  - Floats are exact decimals in fixed point: prices in thousandths of   *)
(*    a pound, hours and the 0.1-step sliders in tenths, the 0.01-step     *)
(*    slider in hundredths, unrounded scores in 1/100000, and the value    *)
(*    score_row returns in hundredths.                                     *)
(*  - A date is its proleptic Gregorian ordinal (date.toordinal()).        *)
(***************************************************************************)
EXTENDS Integers, Sequences, FiniteSets, TLC

VARIABLES
  cfg,        \* the sidebar settings of this run (lines 34-46)
  pc,         \* position of the script
  data,       \* fetch_all_sources: the list being built, then `raw`
  warnings,   \* st.warning calls made by fetch_all_sources, in order
  f4f,        \* what fetch_fly4free did in this run
  sf,         \* what fetch_secretflying did in this run
  idx,        \* number of items of raw the parse loop has consumed
  rows,       \* the script's `rows`
  pair,       \* score_row applied to two rows under two price weights
  link        \* build_booking_link applied to one set of arguments

vars == <<cfg, pc, data, warnings, f4f, sf, idx, rows, pair, link>>

(***************************************************************************)
(* Bounds of the model.                                                    *)
(***************************************************************************)
\* items one adapter returns in the wide-title specification
MaxItems == 1
\* items one adapter returns in the batch specification
MaxBatchItems == 3
\* longest stay given to build_booking_link in the link specification
MaxNights == 7

(***************************************************************************)
(* Characters and strings.                                                 *)
(***************************************************************************)
NoneText == <<"None">>
NoneNum == -1

UpperAZ ==
  {"A","B","C","D","E","F","G","H","I","J","K","L","M",
   "N","O","P","Q","R","S","T","U","V","W","X","Y","Z"}

LowerAZ ==
  {"a","b","c","d","e","f","g","h","i","j","k","l","m",
   "n","o","p","q","r","s","t","u","v","w","x","y","z"}

Digits == {"0","1","2","3","4","5","6","7","8","9"}

AccentedLetters == {"i_acute", "e_acute", "n_tilde"}

\* str.lower() on one character
LowerChar(c) ==
  CASE c = "A" -> "a" [] c = "B" -> "b" [] c = "C" -> "c" [] c = "D" -> "d"
    [] c = "E" -> "e" [] c = "F" -> "f" [] c = "G" -> "g" [] c = "H" -> "h"
    [] c = "I" -> "i" [] c = "J" -> "j" [] c = "K" -> "k" [] c = "L" -> "l"
    [] c = "M" -> "m" [] c = "N" -> "n" [] c = "O" -> "o" [] c = "P" -> "p"
    [] c = "Q" -> "q" [] c = "R" -> "r" [] c = "S" -> "s" [] c = "T" -> "t"
    [] c = "U" -> "u" [] c = "V" -> "v" [] c = "W" -> "w" [] c = "X" -> "x"
    [] c = "Y" -> "y" [] c = "Z" -> "z" [] OTHER -> c

\* str.lower()
Lower(text) == [i \in 1..Len(text) |-> LowerChar(text[i])]

\* pat stands in text at position i
MatchesAt(text, pat, i) ==
  /\ i + Len(pat) - 1 <= Len(text)
  /\ SubSeq(text, i, i + Len(pat) - 1) = pat

\* `pat in text`
Contains(text, pat) ==
  \E i \in 1..(Len(text) - Len(pat) + 1) : MatchesAt(text, pat, i)

\* the regex class \w (str patterns are Unicode-aware)
IsWordChar(c) == c \in UpperAZ \cup LowerAZ \cup Digits \cup AccentedLetters \cup {"_"}

\* the regex class \s
IsSpace(c) == c = " "

\* the regex class \d
IsDigit(c) == c \in Digits

DigitVal(c) ==
  CASE c = "0" -> 0 [] c = "1" -> 1 [] c = "2" -> 2 [] c = "3" -> 3
    [] c = "4" -> 4 [] c = "5" -> 5 [] c = "6" -> 6 [] c = "7" -> 7
    [] c = "8" -> 8 [] c = "9" -> 9

DigitChar(n) ==
  CASE n = 0 -> "0" [] n = 1 -> "1" [] n = 2 -> "2" [] n = 3 -> "3"
    [] n = 4 -> "4" [] n = 5 -> "5" [] n = 6 -> "6" [] n = 7 -> "7"
    [] n = 8 -> "8" [] n = 9 -> "9"

RECURSIVE DigitsToInt(_)
\* int() of a run of digits (the empty run is 0)
DigitsToInt(ds) ==
  IF ds = <<>> THEN 0
  ELSE 10 * DigitsToInt(SubSeq(ds, 1, Len(ds) - 1)) + DigitVal(ds[Len(ds)])

RECURSIVE Concat(_)
\* "".join(parts)
Concat(parts) ==
  IF parts = <<>> THEN <<>> ELSE Head(parts) \o Concat(Tail(parts))

RECURSIVE JoinWith(_, _)
\* sep.join(parts)
JoinWith(sep, parts) ==
  IF parts = <<>> THEN <<>>
  ELSE IF Len(parts) = 1 THEN parts[1]
  ELSE parts[1] \o sep \o JoinWith(sep, Tail(parts))

\* position of the first occurrence of pat in text at or after i, 0 if none
FindFrom(text, pat, i) ==
  LET hits == {j \in i..(Len(text) - Len(pat) + 1) : MatchesAt(text, pat, j)}
  IN  IF hits = {} THEN 0 ELSE CHOOSE j \in hits : \A k \in hits : j <= k

(***************************************************************************)
(* The curated destination metadata, in dict insertion order.             *)
(***************************************************************************)
DEST_META ==
  <<
    [code |-> <<"F", "N", "C">>,
     city |-> <<"F", "u", "n", "c", "h", "a", "l", " ", "(", "M", "a", "d", "e", "i", "r", "a", ")">>,
     country |-> "Portugal", transfer_mins |-> 45, walk |-> 4,
     areas |-> << <<"L", "i", "d", "o", " ", "p", "r", "o", "m", "e", "n", "a", "d", "e">>,
                  <<"F", "o", "r", "u", "m", " ", "M", "a", "d", "e", "i", "r", "a">> >>],
    [code |-> <<"T", "F", "S">>,
     city |-> <<"T", "e", "n", "e", "r", "i", "f", "e", " ", "S", "o", "u", "t", "h", " ", "ARROW", " ", "C", "o", "s", "t", "a", " ", "A", "d", "e", "j", "e">>,
     country |-> "Spain (Canaries)", transfer_mins |-> 40, walk |-> 5,
     areas |-> << <<"C", "o", "s", "t", "a", " ", "A", "d", "e", "j", "e">>,
                  <<"F", "a", "n_tilde", "a", "b", "e_acute">> >>],
    [code |-> <<"K", "E", "F">>,
     city |-> <<"R", "e", "y", "k", "j", "a", "v", "i_acute", "k">>,
     country |-> "Iceland", transfer_mins |-> 45, walk |-> 4,
     areas |-> << <<"1", "0", "1", " ", "R", "e", "y", "k", "j", "a", "v", "i_acute", "k">>,
                  <<"H", "a", "r", "p", "a">> >>],
    [code |-> <<"N", "C", "E">>,
     city |-> <<"N", "i", "c", "e">>,
     country |-> "France", transfer_mins |-> 28, walk |-> 5,
     areas |-> << <<"V", "i", "e", "u", "x", " ", "N", "i", "c", "e">>,
                  <<"J", "e", "a", "n", " ", "M", "e_acute", "d", "e", "c", "i", "n">> >>],
    [code |-> <<"P", "M", "I">>,
     city |-> <<"P", "a", "l", "m", "a", " ", "d", "e", " ", "M", "a", "l", "l", "o", "r", "c", "a">>,
     country |-> "Spain (Balearics)", transfer_mins |-> 22, walk |-> 5,
     areas |-> << <<"C", "a", "n", " ", "P", "a", "s", "t", "i", "l", "l", "a">>,
                  <<"O", "l", "d", " ", "T", "o", "w", "n">> >>],
    [code |-> <<"L", "I", "S">>,
     city |-> <<"L", "i", "s", "b", "o", "n">>,
     country |-> "Portugal", transfer_mins |-> 24, walk |-> 4,
     areas |-> << <<"B", "a", "i", "x", "a">>,
                  <<"C", "h", "i", "a", "d", "o">>,
                  <<"S", "a", "l", "d", "a", "n", "h", "a">> >>],
    [code |-> <<"O", "P", "O">>,
     city |-> <<"P", "o", "r", "t", "o">>,
     country |-> "Portugal", transfer_mins |-> 30, walk |-> 4,
     areas |-> << <<"C", "e", "d", "o", "f", "e", "i", "t", "a">>,
                  <<"R", "i", "b", "e", "i", "r", "a">> >>],
    [code |-> <<"D", "B", "V">>,
     city |-> <<"D", "u", "b", "r", "o", "v", "n", "i", "k">>,
     country |-> "Croatia", transfer_mins |-> 35, walk |-> 4,
     areas |-> << <<"L", "a", "p", "a", "d", " ", "p", "r", "o", "m", "e", "n", "a", "d", "e">> >>],
    [code |-> <<"V", "L", "C">>,
     city |-> <<"V", "a", "l", "e", "n", "c", "i", "a">>,
     country |-> "Spain", transfer_mins |-> 25, walk |-> 5,
     areas |-> << <<"R", "u", "z", "a", "f", "a">>,
                  <<"E", "i", "x", "a", "m", "p", "l", "e">> >>],
    [code |-> <<"S", "I", "D">>,
     city |-> <<"S", "a", "l", " ", "(", "C", "a", "p", "e", " ", "V", "e", "r", "d", "e", ")">>,
     country |-> "Cape Verde", transfer_mins |-> 20, walk |-> 4,
     areas |-> << <<"S", "a", "n", "t", "a", " ", "M", "a", "r", "i", "a">> >>]
  >>


LONDON_CODES ==
  << <<"L","H","R">>, <<"L","G","W">>, <<"L","T","N">>,
     <<"S","T","N">>, <<"L","C","Y">>, <<"S","E","N">> >>

\* the set of a sequence's elements
Range(s) == {s[i] : i \in 1..Len(s)}

CatalogCodes == {DEST_META[k].code : k \in 1..Len(DEST_META)}

\* DEST_META.get(code, {}): the index of the entry, 0 for the empty dict
MetaIndex(code) ==
  IF code \in CatalogCodes
  THEN CHOOSE k \in 1..Len(DEST_META) : DEST_META[k].code = code
  ELSE 0

(***************************************************************************)
(* extract_price: the three PRICE_PATTERNS, tried in order.                *)
(***************************************************************************)
\* the literal words each pattern wants before the pound sign (each followed
\* by \s*, matched ignoring case)
PRICE_PATTERNS == << <<>>, << <<"f","r","o","m">> >>, << <<"f","o","r">>, <<"o","n","l","y">> >> >>

\* last position of the run of \d that starts at s (s - 1 when it is empty)
DigitRunEnd(text, s) ==
  LET stops == {e \in s..(Len(text) + 1) : e > Len(text) \/ ~IsDigit(text[e])}
  IN  (CHOOSE e \in stops : \A k \in stops : e <= k) - 1

\* first position at or after s that holds no \s
SkipSpaces(text, s) ==
  LET stops == {e \in s..(Len(text) + 1) : e > Len(text) \/ ~IsSpace(text[e])}
  IN  CHOOSE e \in stops : \A k \in stops : e <= k

\* float() of a fraction's digits, in thousandths (digits past the third are
\* below the model's resolution)
FracMilli(ds) ==
  LET d(i) == IF i <= Len(ds) THEN DigitVal(ds[i]) ELSE 0
  IN  100 * d(1) + 10 * d(2) + d(3)

\* float(m.group(1).replace(",", "")) in thousandths, for the group
\* \d+[\.,]?\d* that starts at s
GroupValue(text, s) ==
  LET e1 == DigitRunEnd(text, s)
      d1 == SubSeq(text, s, e1)
      hasSep == e1 + 1 <= Len(text) /\ text[e1 + 1] \in {".", ","}
      e2 == IF hasSep THEN DigitRunEnd(text, e1 + 2) ELSE e1
      d2 == IF hasSep THEN SubSeq(text, e1 + 2, e2) ELSE <<>>
  IN  IF hasSep /\ text[e1 + 1] = "."
      THEN 1000 * DigitsToInt(d1) + FracMilli(d2)
      ELSE 1000 * DigitsToInt(d1 \o d2)

\* the core  GBP \s? (\d+[\.,]?\d*)  matched at position p: the group's value,
\* NoneNum when it does not match there
CoreAt(text, p) ==
  IF p > Len(text) \/ text[p] # "GBP" THEN NoneNum
  ELSE IF p + 2 <= Len(text) /\ IsSpace(text[p + 1]) /\ IsDigit(text[p + 2])
       THEN GroupValue(text, p + 2)
  ELSE IF p + 1 <= Len(text) /\ IsDigit(text[p + 1])
       THEN GroupValue(text, p + 1)
  ELSE NoneNum

RECURSIVE PatternAt(_, _, _)
\* one pattern matched at position p
PatternAt(text, p, lits) ==
  IF lits = <<>> THEN CoreAt(text, p)
  ELSE LET lit == Head(lits)
       IN  IF p + Len(lit) - 1 <= Len(text)
              /\ Lower(SubSeq(text, p, p + Len(lit) - 1)) = lit
           THEN PatternAt(text, SkipSpaces(text, p + Len(lit)), Tail(lits))
           ELSE NoneNum

\* pat.search(text): the leftmost match's value, NoneNum when there is none
PatternSearch(text, lits) ==
  LET hits == {p \in 1..Len(text) : PatternAt(text, p, lits) # NoneNum}
  IN  IF hits = {} THEN NoneNum
      ELSE PatternAt(text, CHOOSE p \in hits : \A q \in hits : p <= q, lits)

RECURSIVE ExtractFrom(_, _)
ExtractFrom(text, k) ==
  IF k > Len(PRICE_PATTERNS) THEN NoneNum
  ELSE LET v == PatternSearch(text, PRICE_PATTERNS[k])
       IN  IF v # NoneNum THEN v ELSE ExtractFrom(text, k + 1)

extract_price(text) == ExtractFrom(text, 1)

(***************************************************************************)
(* guess_iata                                                              *)
(***************************************************************************)
\* meta["city"].split(" -> ")[0]
CityHead(city) ==
  LET p == FindFrom(city, <<" ", "ARROW", " ">>, 1)
  IN  IF p = 0 THEN city ELSE SubSeq(city, 1, p - 1)

\* IATA_PAT = \b([A-Z]{3})\b matched at position p
IataAt(text, p) ==
  /\ p + 2 <= Len(text)
  /\ \A i \in p..(p + 2) : text[i] \in UpperAZ
  /\ (p = 1 \/ ~IsWordChar(text[p - 1]))
  /\ (p + 2 = Len(text) \/ ~IsWordChar(text[p + 3]))

\* IATA_PAT.search(text): the leftmost match's group, NoneText when none
IataSearch(text) ==
  LET hits == {p \in 1..Len(text) : IataAt(text, p)}
  IN  IF hits = {} THEN NoneText
      ELSE LET p == CHOOSE q \in hits : \A r \in hits : q <= r
           IN  SubSeq(text, p, p + 2)

\* variant: the fallback without the `not in LONDON_CODES` test
IataFallbackAnyToken(text) == IataSearch(text)

\* the fallback of guess_iata, after the catalog scan found nothing
IataFallback(text) ==
  LET m == IataSearch(text)
  IN  IF m # NoneText /\ m \notin Range(LONDON_CODES) THEN m ELSE NoneText

\* the condition of the catalog scan for entry k
CatalogHit(text, k) ==
  \/ Contains(text, DEST_META[k].code)
  \/ Contains(Lower(text), Lower(CityHead(DEST_META[k].city)))

RECURSIVE CatalogScan(_, _)
\* the for loop over DEST_META.items(), from entry k on
CatalogScan(text, k) ==
  IF k > Len(DEST_META) THEN IataFallback(text)
  ELSE IF CatalogHit(text, k) THEN DEST_META[k].code
  ELSE CatalogScan(text, k + 1)

guess_iata(text) == CatalogScan(text, 1)

(***************************************************************************)
(* estimate_flight_hours, in tenths of an hour                             *)
(***************************************************************************)
DefaultHours == 30

estimate_flight_hours(code) ==
  CASE code = <<"F","N","C">> -> 40
    [] code = <<"T","F","S">> -> 45
    [] code = <<"K","E","F">> -> 30
    [] code = <<"N","C","E">> -> 21
    [] code = <<"P","M","I">> -> 23
    [] code = <<"L","I","S">> -> 28
    [] code = <<"O","P","O">> -> 22
    [] code = <<"D","B","V">> -> 28
    [] code = <<"V","L","C">> -> 23
    [] code = <<"S","I","D">> -> 60
    [] OTHER -> DefaultHours

(***************************************************************************)
(* score_row.  c holds the sidebar weights the function reads as globals.  *)
(***************************************************************************)
\* stops_pen, in whole points
StopsPen(row, c) ==
  LET nonstop == IF row.nonstop THEN 1 ELSE 0
  IN  (IF nonstop = 1 THEN 0 ELSE 1) * c.stop_penalty

\* the score before rounding, in units of 1/100000
RawScore(row, c) ==
  LET base == 100 * 100000
      price_pen == row.price * c.price_w
      accom_pen == row.accom * c.accom_w
      transfer_pen == row.transfer_mins * c.transfer_penalty * 1000
      time_pen == row.hours * c.time_penalty * 1000
      stops_pen == StopsPen(row, c) * 100000
      walk == row.walk
      baggage == IF row.baggage # 0 THEN 1 ELSE 0
  IN  base - price_pen - accom_pen - transfer_pen - time_pen - stops_pen
        + c.nonstop_bonus * 100000 + walk * c.walk_bonus * 100000
        + baggage * c.baggage_bonus * 100000

\* round(x, 2) of a value in 1/100000, in hundredths: to nearest, an exact
\* half to the even neighbour
Round2(x) ==
  LET q == x \div 1000
      r == x % 1000
  IN  IF r < 500 THEN q
      ELSE IF r > 500 THEN q + 1
      ELSE IF q % 2 = 0 THEN q ELSE q + 1

\* variant: the price term added instead of subtracted
score_row_price_added(row, c) ==
  Round2(RawScore(row, c) + 2 * row.price * c.price_w)

score_row(row, c) == Round2(RawScore(row, c))

(***************************************************************************)
(* sorted(rows, key=lambda x: x['score'], reverse=True)[:num_results]      *)
(***************************************************************************)
\* r placed into s, which is in descending score order, behind every element
\* whose score is at least r's
InsertDesc(s, r) ==
  LET k == Cardinality({i \in 1..Len(s) : s[i].score >= r.score})
  IN  SubSeq(s, 1, k) \o <<r>> \o SubSeq(s, k + 1, Len(s))

RECURSIVE SortedDesc(_)
SortedDesc(rs) ==
  IF rs = <<>> THEN <<>>
  ELSE InsertDesc(SortedDesc(SubSeq(rs, 1, Len(rs) - 1)), rs[Len(rs)])

Reverse(s) == [i \in 1..Len(s) |-> s[Len(s) + 1 - i]]

\* variant: sorted(rows, key=...)[::-1], an ascending sort reversed, which
\* brings equal scores out in reverse input order
sorted_top_reversed_ties(rs, n) ==
  LET s == SortedDesc(Reverse(rs))
  IN  SubSeq(s, 1, IF n < Len(s) THEN n ELSE Len(s))

sorted_top(rs, n) ==
  LET s == SortedDesc(rs)
  IN  SubSeq(s, 1, IF n < Len(s) THEN n ELSE Len(s))

(***************************************************************************)
(* datetime.date: ordinals, year/month/day, isoformat.                     *)
(***************************************************************************)
IsLeap(y) == y % 4 = 0 /\ (y % 100 # 0 \/ y % 400 = 0)

DaysInMonth(y, m) ==
  CASE m \in {1, 3, 5, 7, 8, 10, 12} -> 31
    [] m \in {4, 6, 9, 11} -> 30
    [] OTHER -> IF IsLeap(y) THEN 29 ELSE 28

RECURSIVE DaysBeforeMonth(_, _)
DaysBeforeMonth(y, m) ==
  IF m = 1 THEN 0 ELSE DaysBeforeMonth(y, m - 1) + DaysInMonth(y, m - 1)

DaysBeforeYear(y) ==
  (y - 1) * 365 + (y - 1) \div 4 - (y - 1) \div 100 + (y - 1) \div 400

\* date(y, m, d).toordinal()
ymd2ord(y, m, d) == DaysBeforeYear(y) + DaysBeforeMonth(y, m) + d

\* date.fromordinal(n), as [y, m, d]
ord2ymd(n) ==
  LET n0 == n - 1
      n400 == n0 \div 146097
      r400 == n0 % 146097
      n100 == r400 \div 36524
      r100 == r400 % 36524
      n4 == r100 \div 1461
      r4 == r100 % 1461
      n1 == r4 \div 365
      r1 == r4 % 365
      year == n400 * 400 + 1 + n100 * 100 + n4 * 4 + n1
  IN  IF n1 = 4 \/ n100 = 4 THEN [y |-> year - 1, m |-> 12, d |-> 31]
      ELSE LET month == CHOOSE m \in 1..12 :
                          /\ DaysBeforeMonth(year, m) <= r1
                          /\ r1 < DaysBeforeMonth(year, m) + DaysInMonth(year, m)
           IN  [y |-> year, m |-> month, d |-> r1 - DaysBeforeMonth(year, month) + 1]

\* start_date + dt.timedelta(days=nights)
AddDays(start, nights) == start + nights

RECURSIVE ZeroPad(_, _)
\* "%0<width>d" % n
ZeroPad(n, width) ==
  IF width = 0 THEN <<>>
  ELSE ZeroPad(n \div 10, width - 1) \o <<DigitChar(n % 10)>>

\* date.isoformat()
isoformat(n) ==
  LET t == ord2ymd(n)
  IN  ZeroPad(t.y, 4) \o <<"-">> \o ZeroPad(t.m, 2) \o <<"-">> \o ZeroPad(t.d, 2)

(***************************************************************************)
(* urllib.parse.urlencode                                                  *)
(***************************************************************************)
\* the characters quote_plus leaves as they are
QuoteSafe == UpperAZ \cup LowerAZ \cup Digits \cup {"_", ".", "-", "~"}

\* the UTF-8 bytes of a character quote_plus escapes, as hex pairs
Utf8Hex(c) ==
  CASE c = "(" -> << <<"2","8">> >>
    [] c = ")" -> << <<"2","9">> >>
    [] c = "&" -> << <<"2","6">> >>
    [] c = "+" -> << <<"2","B">> >>
    [] c = "=" -> << <<"3","D">> >>
    [] c = "%" -> << <<"2","5">> >>
    [] c = "," -> << <<"2","C">> >>
    [] c = ":" -> << <<"3","A">> >>
    [] c = "/" -> << <<"2","F">> >>
    [] c = "?" -> << <<"3","F">> >>
    [] c = "GBP" -> << <<"C","2">>, <<"A","3">> >>
    [] c = "i_acute" -> << <<"C","3">>, <<"A","D">> >>
    [] c = "e_acute" -> << <<"C","3">>, <<"A","9">> >>
    [] c = "n_tilde" -> << <<"C","3">>, <<"B","1">> >>
    [] c = "ARROW" -> << <<"E","2">>, <<"8","6">>, <<"9","2">> >>

\* the characters of the model that quote_plus escapes
Escaped ==
  {"(", ")", "&", "+", "=", "%", ",", ":", "/", "?",
   "GBP", "i_acute", "e_acute", "n_tilde", "ARROW"}

\* quote_plus of one character
QuoteChar(c) ==
  IF c \in QuoteSafe THEN <<c>>
  ELSE IF c = " " THEN <<"+">>
  ELSE Concat([i \in 1..Len(Utf8Hex(c)) |-> <<"%">> \o Utf8Hex(c)[i]])

\* variant: the value written into the query as it is
quote_plus_raw(text) == text

\* quote_plus(str(v))
quote_plus(text) == Concat([i \in 1..Len(text) |-> QuoteChar(text[i])])

\* urlencode(params), params a sequence of <<key, value>> in dict order
urlencode(params) ==
  JoinWith(<<"&">>,
           [i \in 1..Len(params) |->
              quote_plus(params[i][1]) \o <<"=">> \o quote_plus(params[i][2])])

(***************************************************************************)
(* build_google_flights_link and build_booking_link                        *)
(***************************************************************************)
build_google_flights_link(dest_code, start_date, nights) ==
  LET q0 == <<"F","l","i","g","h","t","s"," ","t","o"," ">> \o dest_code
              \o <<" ","f","r","o","m"," ","L","o","n","d","o","n">>
      q == IF start_date # NoneNum
           THEN q0 \o <<" ","o","n"," ">> \o isoformat(start_date)
                  \o <<" ","t","h","r","o","u","g","h"," ">>
                  \o isoformat(AddDays(start_date, nights))
           ELSE q0
  IN  <<"h","t","t","p","s",":","/","/","w","w","w",".","g","o","o","g","l","e",
        ".","c","o","m","/","t","r","a","v","e","l","/","f","l","i","g","h","t","s","?">>
        \o urlencode(<< << <<"q">>, q >> >>)

build_booking_link(city, start_date, nights, area) ==
  LET ss == city \o <<" ">> \o (IF area = NoneText THEN <<>> ELSE area)
      dates ==
        IF start_date # NoneNum
        THEN << << <<"c","h","e","c","k","i","n">>, isoformat(start_date) >>,
                << <<"c","h","e","c","k","o","u","t">>,
                   isoformat(AddDays(start_date, nights)) >>,
                << <<"g","r","o","u","p","_","a","d","u","l","t","s">>, <<"2">> >>,
                << <<"g","r","o","u","p","_","c","h","i","l","d","r","e","n">>, <<"2">> >>,
                << <<"n","o","_","r","o","o","m","s">>, <<"1">> >> >>
        ELSE <<>>
  IN  <<"h","t","t","p","s",":","/","/","w","w","w",".","b","o","o","k","i","n","g",
        ".","c","o","m","/","s","e","a","r","c","h","r","e","s","u","l","t","s",
        ".","h","t","m","l","?">>
        \o urlencode(<< << <<"s","s">>, ss >> >> \o dates)

(***************************************************************************)
(* Listing titles the sources return in the model.                         *)
(***************************************************************************)
\* "London to Funchal for <GBP>46 return, non-stop"
TitleF1 ==
  <<"L", "o", "n", "d", "o", "n", " ", "t", "o", " ", "F", "u", "n", "c", "h", "a", "l", " ", "f", "o", "r", " ", "GBP", "4", "6", " ", "r", "e", "t", "u", "r", "n", ",", " ", "n", "o", "n", "-", "s", "t", "o", "p">>

\* "LHR to JFK for <GBP>300"
TitleF2 ==
  <<"L", "H", "R", " ", "t", "o", " ", "J", "F", "K", " ", "f", "o", "r", " ", "GBP", "3", "0", "0">>

\* "London to JFK from <GBP>1.6"
TitleF3 ==
  <<"L", "o", "n", "d", "o", "n", " ", "t", "o", " ", "J", "F", "K", " ", "f", "r", "o", "m", " ", "GBP", "1", ".", "6">>

\* "SEASIDE break from London <GBP>25"
TitleF4 ==
  <<"S", "E", "A", "S", "I", "D", "E", " ", "b", "r", "e", "a", "k", " ", "f", "r", "o", "m", " ", "L", "o", "n", "d", "o", "n", " ", "GBP", "2", "5">>

\* "Cheap flights from London"
TitleF5 ==
  <<"C", "h", "e", "a", "p", " ", "f", "l", "i", "g", "h", "t", "s", " ", "f", "r", "o", "m", " ", "L", "o", "n", "d", "o", "n">>

\* "Porto or Lisbon from LGW <GBP>1,234"
TitleF6 ==
  <<"P", "o", "r", "t", "o", " ", "o", "r", " ", "L", "i", "s", "b", "o", "n", " ", "f", "r", "o", "m", " ", "L", "G", "W", " ", "GBP", "1", ",", "2", "3", "4">>

\* "London to Nice <GBP>0"
TitleS1 ==
  <<"L", "o", "n", "d", "o", "n", " ", "t", "o", " ", "N", "i", "c", "e", " ", "GBP", "0">>

\* "London to PMI nonstop <GBP>1.4"
TitleS2 ==
  <<"L", "o", "n", "d", "o", "n", " ", "t", "o", " ", "P", "M", "I", " ", "n", "o", "n", "s", "t", "o", "p", " ", "GBP", "1", ".", "4">>

\* "Tenerife South from London <GBP>46"
TitleS3 ==
  <<"T", "e", "n", "e", "r", "i", "f", "e", " ", "S", "o", "u", "t", "h", " ", "f", "r", "o", "m", " ", "L", "o", "n", "d", "o", "n", " ", "GBP", "4", "6">>

\* "A nice deal from STN to ABC <GBP> 99"
TitleS4 ==
  <<"A", " ", "n", "i", "c", "e", " ", "d", "e", "a", "l", " ", "f", "r", "o", "m", " ", "S", "T", "N", " ", "t", "o", " ", "A", "B", "C", " ", "GBP", " ", "9", "9">>

\* "London to Reykjav<i_acute>k <GBP>120"
TitleS5 ==
  <<"L", "o", "n", "d", "o", "n", " ", "t", "o", " ", "R", "e", "y", "k", "j", "a", "v", "i_acute", "k", " ", "GBP", "1", "2", "0">>

\* "London to PMI nonstop <GBP>46"
TitleB1 ==
  <<"L", "o", "n", "d", "o", "n", " ", "t", "o", " ", "P", "M", "I", " ", "n", "o", "n", "s", "t", "o", "p", " ", "GBP", "4", "6">>

\* "Cheap flights from London <GBP>46"
TitleB2 ==
  <<"C", "h", "e", "a", "p", " ", "f", "l", "i", "g", "h", "t", "s", " ", "f", "r", "o", "m", " ", "L", "o", "n", "d", "o", "n", " ", "GBP", "4", "6">>

\* "London to SID for only <GBP>199"
TitleB3 ==
  <<"L", "o", "n", "d", "o", "n", " ", "t", "o", " ", "S", "I", "D", " ", "f", "o", "r", " ", "o", "n", "l", "y", " ", "GBP", "1", "9", "9">>

TitlesF4F == {TitleF1, TitleF2, TitleF3, TitleF4, TitleF5, TitleF6}

TitlesSF == {TitleS1, TitleS2, TitleS3, TitleS4, TitleS5}

BatchTitlesF4F == {TitleB1, TitleB2}

BatchTitlesSF == {TitleB1, TitleB2, TitleB3}

\* title stems and price words of the score specification
PairStems ==
  {<<"L", "o", "n", "d", "o", "n", " ", "t", "o", " ", "P", "M", "I", " ", "n", "o", "n", "s", "t", "o", "p", " ">>,
   <<"C", "h", "e", "a", "p", " ", "f", "l", "i", "g", "h", "t", "s", " ", "f", "r", "o", "m", " ", "L", "o", "n", "d", "o", "n", " ">>}

PairPrices ==
  {<<"GBP", "1", ".", "4">>,
   <<"GBP", "1", ".", "6">>,
   <<"GBP", "4", "6">>,
   <<"GBP", "3", "0", "0">>,
   <<"GBP", "0">>}

\* city arguments of the link specification besides the catalog's cities
ExtraCities ==
  {<<"B", "r", "i", "g", "h", "t", "o", "n", " ", "&", " ", "H", "o", "v", "e">>,
   <<"J", "F", "K">>,
   <<"A", "+", "B", "=", "C", "%">>,
   <<>>}

(***************************************************************************)
(* The sidebar settings.                                                   *)
(***************************************************************************)
\* the sliders' initial values
DefaultCfg ==
  [price_w |-> 5, accom_w |-> 3, nonstop_bonus |-> 15, stop_penalty |-> 10,
   time_penalty |-> 20, transfer_penalty |-> 10, walk_bonus |-> 2,
   baggage_bonus |-> 5, max_hours |-> 50, nonstop_only |-> TRUE,
   num_results |-> 10]

\* the values of the "Max outbound flight hours" slider, in tenths
MaxHoursSlider == {20 + 5 * k : k \in 0..20}

\* the values of the "Weight: Flight price" slider, in tenths
PriceWeightSlider == 0..20

\* the values of the "Show Top N" slider
NumResultsSlider == 5..20

(***************************************************************************)
(* The body of the parse loop for one item of raw.                         *)
(***************************************************************************)
\* `x or None` / `x or default` on a number: None and 0.0 are falsy
NumOr(x, default) == IF x = NoneNum \/ x = 0 THEN default ELSE x

\* 'non-stop' in title.lower() or 'nonstop' in title.lower()
SaysNonstop(title) ==
  \/ Contains(Lower(title), <<"n","o","n","-","s","t","o","p">>)
  \/ Contains(Lower(title), <<"n","o","n","s","t","o","p">>)

\* every title of the model
ModelTitles ==
  TitlesF4F \cup TitlesSF \cup BatchTitlesF4F \cup BatchTitlesSF
    \cup {stem \o price : stem \in PairStems, price \in PairPrices}

\* guess_iata, extract_price and the nonstop test, tabulated over the titles
\* of the model
TitleFacts ==
  [t \in ModelTitles |->
     [code |-> guess_iata(t), price |-> extract_price(t), nonstop |-> SaysNonstop(t)]]

\* variant: the else branch reports what the title says
nonstop_flag_detected(title, nonstop_only) ==
  IF nonstop_only /\ ~TitleFacts[title].nonstop THEN TRUE ELSE TitleFacts[title].nonstop

\* the if/else that sets nonstop_flag
nonstop_flag(title, nonstop_only) ==
  IF nonstop_only /\ ~TitleFacts[title].nonstop
  THEN TRUE
  ELSE (IF TitleFacts[title].nonstop THEN TRUE ELSE TRUE)

\* hours = estimate_flight_hours(code) if code else None
ItemHours(code) ==
  IF code # NoneText /\ code # <<>> THEN estimate_flight_hours(code) ELSE NoneNum

\* the `continue` of the loop
Dropped(title, c) ==
  LET hours == ItemHours(TitleFacts[title].code)
  IN  hours # NoneNum /\ hours > c.max_hours

\* the dict appended to rows
RowOf(item, c) ==
  LET title == item.title
      price == NumOr(TitleFacts[title].price, NoneNum)
      code == TitleFacts[title].code
      k == MetaIndex(code)
      hours == ItemHours(code)
  IN  [source |-> "Fly4Free/SecretFlying",
       title |-> title,
       url |-> item.url,
       iata |-> code,
       city |-> IF k = 0 THEN NoneText ELSE DEST_META[k].city,
       country |-> IF k = 0 THEN "None" ELSE DEST_META[k].country,
       hours |-> NumOr(hours, DefaultHours),
       transfer_mins |-> IF k = 0 THEN 35 ELSE DEST_META[k].transfer_mins,
       walk |-> IF k = 0 THEN 4 ELSE DEST_META[k].walk,
       areas |-> IF k = 0 \/ DEST_META[k].areas = <<>> THEN NoneText
                 ELSE JoinWith(<<",", " ">>, DEST_META[k].areas),
       price |-> NumOr(price, 120000),
       accom |-> 100000,
       nonstop |-> nonstop_flag(title, c.nonstop_only),
       baggage |-> 0]

\* the two links attached to a ranked row
WithLinks(r, today) ==
  LET dest == IF r.iata = NoneText THEN <<>> ELSE r.iata
      comma == IF r.areas = NoneText THEN 0 ELSE FindFrom(r.areas, <<",">>, 1)
      area == IF r.areas = NoneText \/ r.areas = <<>> THEN NoneText
              ELSE IF comma = 0 THEN r.areas
              ELSE SubSeq(r.areas, 1, comma - 1)
      city == IF r.city = NoneText \/ r.city = <<>> THEN dest ELSE r.city
  IN  [Flights_Link |-> build_google_flights_link(dest, AddDays(today, 21), 6),
       Accommodation_Link |-> build_booking_link(city, AddDays(today, 21), 6, area)]
      @@ r

(***************************************************************************)
(* The script as a state machine.                                          *)
(***************************************************************************)
Pending == [state |-> "pending", items |-> <<>>]

NoPair == [stage |-> "none"]

NoLink == [stage |-> "none"]

\* the dates dt.date.today() returns in the model
TodayChoices == {ymd2ord(2024, 2, 8), ymd2ord(2026, 11, 2)}

\* the lists of at most maxn items one source can return: titles from
\* `titles`, the URLs distinct (each adapter de-duplicates by URL)
Listings(source, titles, maxn) ==
  UNION {{[i \in 1..n |-> [title |-> ts[i], url |-> <<source, i>>]] :
            ts \in [1..n -> titles]} : n \in 0..maxn}

InitRun(maxHoursSet, numResultsSet, nonstopSet) ==
  /\ cfg \in {[DefaultCfg EXCEPT !.max_hours = h, !.num_results = n,
                                 !.nonstop_only = b] :
                h \in maxHoursSet, n \in numResultsSet, b \in nonstopSet}
  /\ pc = "fetch_f4f"
  /\ data = <<>>
  /\ warnings = <<>>
  /\ f4f = Pending
  /\ sf = Pending
  /\ idx = 0
  /\ rows = <<>>
  /\ pair = NoPair
  /\ link = NoLink

\* data += fetch_fly4free()
FetchFly4FreeReturns(titles, maxn) ==
  /\ pc = "fetch_f4f"
  /\ \E items \in Listings("f4f", titles, maxn) :
       /\ data' = data \o items
       /\ f4f' = [state |-> "ok", items |-> items]
  /\ pc' = "fetch_sf"
  /\ UNCHANGED <<cfg, warnings, sf, idx, rows, pair, link>>

\* variant: the exception of fetch_fly4free leaves fetch_all_sources
FetchFly4FreeRaisesUncaught ==
  /\ pc = "fetch_f4f"
  /\ f4f' = [state |-> "error", items |-> <<>>]
  /\ pc' = "crashed"
  /\ UNCHANGED <<cfg, data, warnings, sf, idx, rows, pair, link>>

\* fetch_fly4free raises; except Exception: st.warning(...)
FetchFly4FreeRaises ==
  /\ pc = "fetch_f4f"
  /\ f4f' = [state |-> "error", items |-> <<>>]
  /\ warnings' = Append(warnings, "Fly4Free source error")
  /\ pc' = "fetch_sf"
  /\ UNCHANGED <<cfg, data, sf, idx, rows, pair, link>>

\* data += fetch_secretflying(); return data
FetchSecretFlyingReturns(titles, maxn) ==
  /\ pc = "fetch_sf"
  /\ \E items \in Listings("sf", titles, maxn) :
       /\ data' = data \o items
       /\ sf' = [state |-> "ok", items |-> items]
  /\ pc' = "parse"
  /\ UNCHANGED <<cfg, warnings, f4f, idx, rows, pair, link>>

\* fetch_secretflying raises; except Exception: st.warning(...); return data
FetchSecretFlyingRaises ==
  /\ pc = "fetch_sf"
  /\ sf' = [state |-> "error", items |-> <<>>]
  /\ warnings' = Append(warnings, "SecretFlying source error")
  /\ pc' = "parse"
  /\ UNCHANGED <<cfg, data, f4f, idx, rows, pair, link>>

\* one iteration of `for item in raw` that ends in `continue`
ParseItemDropped ==
  /\ pc = "parse"
  /\ idx < Len(data)
  /\ Dropped(data[idx + 1].title, cfg)
  /\ idx' = idx + 1
  /\ UNCHANGED <<cfg, pc, data, warnings, f4f, sf, rows, pair, link>>

\* one iteration of `for item in raw` that appends a row
ParseItemAppended ==
  /\ pc = "parse"
  /\ idx < Len(data)
  /\ ~Dropped(data[idx + 1].title, cfg)
  /\ rows' = Append(rows, RowOf(data[idx + 1], cfg))
  /\ idx' = idx + 1
  /\ UNCHANGED <<cfg, pc, data, warnings, f4f, sf, pair, link>>

\* for r in rows: r['score'] = score_row(r)
ScoreRows ==
  /\ pc = "parse"
  /\ idx = Len(data)
  /\ rows' = [i \in 1..Len(rows) |-> [score |-> score_row(rows[i], cfg)] @@ rows[i]]
  /\ pc' = "sort"
  /\ UNCHANGED <<cfg, data, warnings, f4f, sf, idx, pair, link>>

\* rows = sorted(rows, key=lambda x: x['score'], reverse=True)[:num_results]
SortRows ==
  /\ pc = "sort"
  /\ rows' = sorted_top(rows, cfg.num_results)
  /\ pc' = "links"
  /\ UNCHANGED <<cfg, data, warnings, f4f, sf, idx, pair, link>>

\* today = dt.date.today(); the loop that attaches the deep links
AttachLinks ==
  /\ pc = "links"
  /\ \E today \in TodayChoices :
       rows' = [i \in 1..Len(rows) |-> WithLinks(rows[i], today)]
  /\ pc' = "done"
  /\ UNCHANGED <<cfg, data, warnings, f4f, sf, idx, pair, link>>

\* the steps of the script after fetch_all_sources
AfterFetch ==
  \/ ParseItemDropped
  \/ ParseItemAppended
  \/ ScoreRows
  \/ SortRows
  \/ AttachLinks

\* the settings of the wide-title specification
SpecMaxHours == {h \in MaxHoursSlider : h \in {20, 25, 30, 45, 50, 120}}

Init == InitRun(SpecMaxHours, {10}, BOOLEAN)

Next ==
  \/ FetchFly4FreeReturns(TitlesF4F, MaxItems)
  \/ FetchFly4FreeRaises
  \/ FetchSecretFlyingReturns(TitlesSF, MaxItems)
  \/ FetchSecretFlyingRaises
  \/ AfterFetch

\* few items per source, many kinds of title, the filter settings varied
Spec == Init /\ [][Next]_vars

InitBatch == InitRun({50}, {n \in NumResultsSlider : n <= 6}, {TRUE})

NextBatch ==
  \/ FetchFly4FreeReturns(BatchTitlesF4F, MaxBatchItems)
  \/ FetchFly4FreeRaises
  \/ FetchSecretFlyingReturns(BatchTitlesSF, MaxBatchItems)
  \/ FetchSecretFlyingRaises
  \/ AfterFetch

\* many items per source, few kinds of title, Top N varied
SpecBatch == InitBatch /\ [][NextBatch]_vars

(***************************************************************************)
(* The stages of the script as functions of raw and the settings.          *)
(***************************************************************************)
RECURSIVE ParsedRows(_, _)
\* rows after the parse loop has consumed raw
ParsedRows(raw, c) ==
  IF raw = <<>> THEN <<>>
  ELSE LET front == ParsedRows(SubSeq(raw, 1, Len(raw) - 1), c)
           item == raw[Len(raw)]
       IN  IF Dropped(item.title, c) THEN front ELSE Append(front, RowOf(item, c))

\* rows after the scoring loop
ScoredRows(raw, c) ==
  LET rs == ParsedRows(raw, c)
  IN  [i \in 1..Len(rs) |-> [score |-> score_row(rs[i], c)] @@ rs[i]]

\* rows after the sort and the cut to Top N
RankedRows(raw, c) == sorted_top(ScoredRows(raw, c), c.num_results)

\* rows after the deep links are attached
LinkedRows(raw, c, today) ==
  LET rs == RankedRows(raw, c)
  IN  [i \in 1..Len(rs) |-> WithLinks(rs[i], today)]

(***************************************************************************)
(* score_row on two rows under two price weights.                          *)
(***************************************************************************)
\* the weight settings of the score specification besides price_w
PairCfgs ==
  {DefaultCfg,
   [DefaultCfg EXCEPT !.time_penalty = 21, !.transfer_penalty = 7, !.accom_w = 0]}

\* the row the parse loop builds for a title
PairRow(stem, price) == RowOf([title |-> stem \o price, url |-> <<"f4f", 1>>], DefaultCfg)

\* the inputs of the score specification for rows A and B: the other weights
\* and the two positions w1 <= w2 of the price slider
PairInputs(A, B) ==
  UNION {{[stage |-> "input", A |-> A, B |-> B, c |-> c, w1 |-> w1, w2 |-> w2,
           sA1 |-> 0, sB1 |-> 0, sA2 |-> 0, sB2 |-> 0] :
            c \in PairCfgs, w2 \in {w \in PriceWeightSlider : w >= w1}} :
         w1 \in PriceWeightSlider}

InitScore ==
  /\ cfg = DefaultCfg
  /\ pc = "idle"
  /\ data = <<>>
  /\ warnings = <<>>
  /\ f4f = Pending
  /\ sf = Pending
  /\ idx = 0
  /\ rows = <<>>
  /\ link = NoLink
  /\ pair \in UNION {PairInputs(PairRow(stem, pa), PairRow(stem, pb)) :
                       stem \in PairStems, pa \in PairPrices, pb \in PairPrices}

\* score_row(A) and score_row(B) with the price slider at w1, then at w2
ScorePair ==
  /\ pair.stage = "input"
  /\ pair' = [pair EXCEPT
       !.stage = "scored",
       !.sA1 = score_row(pair.A, [pair.c EXCEPT !.price_w = pair.w1]),
       !.sB1 = score_row(pair.B, [pair.c EXCEPT !.price_w = pair.w1]),
       !.sA2 = score_row(pair.A, [pair.c EXCEPT !.price_w = pair.w2]),
       !.sB2 = score_row(pair.B, [pair.c EXCEPT !.price_w = pair.w2])]
  /\ UNCHANGED <<cfg, pc, data, warnings, f4f, sf, idx, rows, link>>

NextScore == ScorePair

SpecScore == InitScore /\ [][NextScore]_vars

(***************************************************************************)
(* build_booking_link on one set of arguments.                             *)
(***************************************************************************)
LinkCities == {DEST_META[k].city : k \in 1..Len(DEST_META)} \cup ExtraCities

\* no area, and the first recommended area of each destination
LinkAreas == {NoneText} \cup {DEST_META[k].areas[1] : k \in 1..Len(DEST_META)}

LinkStarts ==
  {ymd2ord(2024, 2, 25), ymd2ord(2023, 12, 28), ymd2ord(2026, 11, 23),
   ymd2ord(2100, 2, 26), ymd2ord(2025, 4, 30)}

InitLink ==
  /\ cfg = DefaultCfg
  /\ pc = "idle"
  /\ data = <<>>
  /\ warnings = <<>>
  /\ f4f = Pending
  /\ sf = Pending
  /\ idx = 0
  /\ rows = <<>>
  /\ pair = NoPair
  /\ link \in {[stage |-> "input", city |-> city, area |-> area,
                start_date |-> s, nights |-> n, url |-> <<>>] :
                 city \in LinkCities, area \in LinkAreas,
                 s \in LinkStarts, n \in 0..MaxNights}

BuildLink ==
  /\ link.stage = "input"
  /\ link' = [link EXCEPT
       !.stage = "built",
       !.url = build_booking_link(link.city, link.start_date, link.nights, link.area)]
  /\ UNCHANGED <<cfg, pc, data, warnings, f4f, sf, idx, rows, pair>>

NextLink == BuildLink

SpecLink == InitLink /\ [][NextLink]_vars

(***************************************************************************)
(* Properties.                                                             *)
(***************************************************************************)

\* C1: every row appended to rows (and so every row given to score_row) has
\* hours <= max_hours, also when the title yields no destination code and
\* hours is the 3.0 default.
C1_RowHoursWithinMaxHours ==
  \A i \in 1..Len(rows) : rows[i].hours <= cfg.max_hours

\* what an adapter contributed to the result
Succeeded(r) == IF r.state = "ok" THEN r.items ELSE <<>>

\* the warning an adapter caused
Warned(r, msg) == IF r.state = "error" THEN <<msg>> ELSE <<>>

\* C2: fetch_all_sources lets no exception escape; whatever each adapter
\* does, the result is the output of Fly4Free (if it succeeded) followed by
\* the output of SecretFlying (if it succeeded), each in its own order, with
\* exactly one warning per failed adapter, and SecretFlying is called also
\* after Fly4Free failed.
C2_FetchAllIsolatesFailures ==
  /\ pc # "crashed"
  /\ pc = "fetch_f4f" => (data = <<>> /\ warnings = <<>>)
  /\ pc = "fetch_sf" =>
       /\ f4f.state # "pending"
       /\ data = Succeeded(f4f)
       /\ warnings = Warned(f4f, "Fly4Free source error")
  /\ pc \notin {"fetch_f4f", "fetch_sf", "idle"} =>
       /\ f4f.state # "pending"
       /\ sf.state # "pending"
       /\ data = Succeeded(f4f) \o Succeeded(sf)
       /\ warnings = Warned(f4f, "Fly4Free source error")
                       \o Warned(sf, "SecretFlying source error")

\* C2 witness: Fly4Free failed, SecretFlying returned three listings, and
\* fetch_all_sources returned exactly those three with one warning.
C2_Witness ==
  /\ pc = "parse"
  /\ f4f.state = "error"
  /\ sf.state = "ok"
  /\ Len(sf.items) = 3
  /\ data = sf.items
  /\ Len(warnings) = 1

\* the position of row r in the sequence rs
PosIn(rs, r) == CHOOSE k \in 1..Len(rs) : rs[k] = r

\* out is the first n rows of before in descending score order, equal scores
\* in their order in before
IsStableTop(before, out, n) ==
  /\ Len(out) = (IF n < Len(before) THEN n ELSE Len(before))
  /\ \A i \in 1..Len(out) : \E k \in 1..Len(before) : before[k] = out[i]
  /\ \A i, j \in 1..Len(out) :
       i < j =>
         \/ out[i].score > out[j].score
         \/ /\ out[i].score = out[j].score
            /\ PosIn(before, out[i]) < PosIn(before, out[j])
  /\ \A k \in 1..Len(before) :
       (\A i \in 1..Len(out) : out[i] # before[k]) =>
         \A i \in 1..Len(out) :
           \/ out[i].score > before[k].score
           \/ /\ out[i].score = before[k].score
              /\ PosIn(before, out[i]) < k

\* C3: the ranking step turns the scored rows into the first
\* min(num_results, number of rows) of them in descending score order, rows
\* of equal score keeping their order from before the sort, and no row left
\* out scores higher than a row kept.
C3_RankingIsStableTopN ==
  [][pc = "sort" => IsStableTop(rows, rows', cfg.num_results)]_vars

\* C3 witness: the sort has just run, it cut the list to num_results, it
\* kept two rows of equal score from different sources in source order, and
\* the scored rows were not in descending order before it.
C3_Witness ==
  /\ pc = "links"
  /\ Len(rows) = cfg.num_results
  /\ Len(ScoredRows(data, cfg)) > cfg.num_results
  /\ \E i \in 1..(Len(rows) - 1) :
       /\ rows[i].score = rows[i + 1].score
       /\ rows[i].url[1] = "f4f"
       /\ rows[i + 1].url[1] = "sf"
  /\ \E i \in 1..(Len(ScoredRows(data, cfg)) - 1) :
       ScoredRows(data, cfg)[i].score < ScoredRows(data, cfg)[i + 1].score

\* C4 as stated: the destination code of a row is absent or a key of
\* DEST_META.
C4_IataInCatalogOrAbsent ==
  \A i \in 1..Len(rows) :
    rows[i].iata = NoneText \/ rows[i].iata \in CatalogCodes

\* tok stands in text as a word of three capital letters
IsStandaloneToken(text, tok) ==
  \E p \in 1..Len(text) : IataAt(text, p) /\ SubSeq(text, p, p + 2) = tok

\* C4 amended: the destination code of a row is absent, or a key of
\* DEST_META, or a standalone three-capital-letter word of the title that is
\* not a London departure code.
C4_IataCatalogOrTitleToken ==
  \A i \in 1..Len(rows) :
    \/ rows[i].iata = NoneText
    \/ rows[i].iata \in CatalogCodes
    \/ /\ IsStandaloneToken(rows[i].title, rows[i].iata)
       /\ rows[i].iata \notin Range(LONDON_CODES)

\* C4 witness: a row carries JFK, which the catalog does not hold, and
\* another title began with a London code.
C4_Witness ==
  /\ \E i \in 1..Len(rows) : rows[i].iata = <<"J","F","K">>
  /\ \E i \in 1..Len(data) : IataSearch(data[i].title) \in Range(LONDON_CODES)

\* C5: a row's price is what extract_price(title) returned whenever it
\* returned a number, 0.0 included, and the 120.0 default only when it
\* returned None.
C5_PriceIsExtractedOrDefault ==
  \A i \in 1..Len(rows) :
    LET p == extract_price(rows[i].title)
    IN  rows[i].price = (IF p # NoneNum THEN p ELSE 120000)

\* entry k matches text the way the claim says: its code as a standalone
\* word, or its city name ignoring case
TokenOrCityHit(text, k) ==
  \/ IsStandaloneToken(text, DEST_META[k].code)
  \/ Contains(Lower(text), Lower(CityHead(DEST_META[k].city)))

\* C6: guess_iata gives the code of catalog entry k exactly when k is the
\* first entry, in catalog order, whose code stands in the title as a word of
\* its own or whose city name occurs in it ignoring case; a code inside a
\* longer word does not count.
C6_CatalogScanMatchesTokensAndCities ==
  \A i \in 1..Len(rows) : \A k \in 1..Len(DEST_META) :
    (rows[i].iata = DEST_META[k].code)
      <=> (/\ TokenOrCityHit(rows[i].title, k)
           /\ \A j \in 1..(k - 1) : ~TokenOrCityHit(rows[i].title, j))

\* the first standalone three-capital-letter word of text that is not a
\* London code, NoneText when there is none
FirstNonLondonToken(text) ==
  LET hits == {p \in 1..Len(text) :
                 IataAt(text, p) /\ SubSeq(text, p, p + 2) \notin Range(LONDON_CODES)}
  IN  IF hits = {} THEN NoneText
      ELSE LET p == CHOOSE q \in hits : \A r \in hits : q <= r
           IN  SubSeq(text, p, p + 2)

\* C7: when no catalog entry matches, guess_iata gives the first standalone
\* three-capital-letter word that is not a London code, passing over London
\* codes before it, and None only when the title has no such word.
C7_FallbackSkipsLondonCodes ==
  \A i \in 1..Len(rows) :
    (\A k \in 1..Len(DEST_META) : ~CatalogHit(rows[i].title, k))
      => rows[i].iata = FirstNonLondonToken(rows[i].title)

\* C8 as stated: with A dearer than B and w1 <= w2, the gap between the
\* returned (rounded) scores of A and B under w2 is at most the gap under w1.
C8_RoundedGapMonotoneInPriceWeight ==
  (pair.stage = "scored" /\ pair.A.price > pair.B.price)
    => pair.sA2 - pair.sB2 <= pair.sA1 - pair.sB1

\* C8 amended: with A dearer than B and w1 <= w2, the gap between the
\* returned scores under w2 is at most the gap under w1 plus one rounding
\* step (0.01); A's returned score never exceeds B's; and before rounding
\* the gap under w2 is at most the gap under w1.
C8_GapMonotoneUpToRounding ==
  (pair.stage = "scored" /\ pair.A.price > pair.B.price)
    => LET c1 == [pair.c EXCEPT !.price_w = pair.w1]
           c2 == [pair.c EXCEPT !.price_w = pair.w2]
       IN  /\ pair.sA2 - pair.sB2 <= pair.sA1 - pair.sB1 + 1
           /\ pair.sA1 <= pair.sB1
           /\ pair.sA2 <= pair.sB2
           /\ RawScore(pair.A, c2) - RawScore(pair.B, c2)
                <= RawScore(pair.A, c1) - RawScore(pair.B, c1)

\* C8 witness: A is dearer than B, the price weight was raised, and the gap
\* between the returned scores grew by the one rounding step.
C8_Witness ==
  /\ pair.stage = "scored"
  /\ pair.A.price > pair.B.price
  /\ pair.w1 < pair.w2
  /\ pair.sA2 - pair.sB2 = pair.sA1 - pair.sB1 + 1

\* the query string of a URL
QueryOf(url) ==
  LET p == FindFrom(url, <<"?">>, 1)
  IN  IF p = 0 THEN <<>> ELSE SubSeq(url, p + 1, Len(url))

RECURSIVE SplitOn(_, _)
\* text.split(sep) for a one-character sep
SplitOn(text, sep) ==
  LET p == FindFrom(text, <<sep>>, 1)
  IN  IF p = 0 THEN <<text>>
      ELSE <<SubSeq(text, 1, p - 1)>> \o SplitOn(SubSeq(text, p + 1, Len(text)), sep)

\* the number of bytes of the UTF-8 sequence whose first byte has this
\* leading hex digit
Utf8Length(hex) ==
  IF hex \in {"C", "D"} THEN 2 ELSE IF hex = "E" THEN 3 ELSE IF hex = "F" THEN 4 ELSE 1

RECURSIVE unquote_plus(_)
\* urllib.parse.unquote_plus: "+" is a space, %XX sequences are UTF-8 bytes;
\* an escape that is not one is left as it is
unquote_plus(text) ==
  IF text = <<>> THEN <<>>
  ELSE IF Head(text) = "+" THEN <<" ">> \o unquote_plus(Tail(text))
  ELSE IF Head(text) = "%" /\ Len(text) >= 3
    THEN LET n == Utf8Length(text[2])
             bytes == IF Len(text) >= 3 * n
                      THEN [i \in 1..n |-> SubSeq(text, 3 * i - 1, 3 * i)]
                      ELSE <<>>
             whole == /\ Len(text) >= 3 * n
                      /\ \A i \in 1..n : text[3 * i - 2] = "%"
             chars == {c \in Escaped : whole /\ Utf8Hex(c) = bytes}
         IN  IF chars = {} THEN <<"%">> \o unquote_plus(Tail(text))
             ELSE <<CHOOSE c \in chars : TRUE>>
                    \o unquote_plus(SubSeq(text, 3 * n + 1, Len(text)))
  ELSE <<Head(text)>> \o unquote_plus(Tail(text))

\* urllib.parse.parse_qsl(query, keep_blank_values=True)
parse_qsl(query) ==
  LET fields == SplitOn(query, "&")
      pairOf(f) ==
        LET p == FindFrom(f, <<"=">>, 1)
        IN  IF p = 0 THEN <<unquote_plus(f), <<>> >>
            ELSE <<unquote_plus(SubSeq(f, 1, p - 1)),
                   unquote_plus(SubSeq(f, p + 1, Len(f)))>>
  IN  [i \in 1..Len(fields) |-> pairOf(fields[i])]

\* the decoded value of the first field called key, NoneText when none is
QueryValue(url, key) ==
  LET q == parse_qsl(QueryOf(url))
      hits == {i \in 1..Len(q) : q[i][1] = key}
  IN  IF hits = {} THEN NoneText
      ELSE q[CHOOSE i \in hits : \A j \in hits : i <= j][2]

\* date.fromisoformat(text).toordinal(), NoneNum when text is no YYYY-MM-DD
IsoToOrdinal(text) ==
  IF /\ Len(text) = 10
     /\ text[5] = "-"
     /\ text[8] = "-"
     /\ \A i \in {1, 2, 3, 4, 6, 7, 9, 10} : IsDigit(text[i])
  THEN ymd2ord(DigitsToInt(SubSeq(text, 1, 4)),
               DigitsToInt(SubSeq(text, 6, 7)),
               DigitsToInt(SubSeq(text, 9, 10)))
  ELSE NoneNum

\* check-in and check-out decode to start_date and start_date + nights
DatesRoundTrip ==
  /\ IsoToOrdinal(QueryValue(link.url, <<"c","h","e","c","k","i","n">>))
       = link.start_date
  /\ IsoToOrdinal(QueryValue(link.url, <<"c","h","e","c","k","o","u","t">>))
       = link.start_date + link.nights

\* C9 as stated: the decoded query of build_booking_link gives back exactly
\* the city as the destination search value, the start date as check-in and
\* start date + nights as check-out.
C9_DecodedSearchValueIsCity ==
  link.stage = "built" =>
    /\ QueryValue(link.url, <<"s","s">>) = link.city
    /\ DatesRoundTrip

\* C9 amended: the decoded destination search value is the city, one space,
\* and the area (nothing after the space when there is no area); check-in is
\* the start date and check-out is start date + nights.
C9_DecodedSearchValueIsCityAndArea ==
  link.stage = "built" =>
    /\ QueryValue(link.url, <<"s","s">>)
         = link.city \o <<" ">> \o (IF link.area = NoneText THEN <<>> ELSE link.area)
    /\ DatesRoundTrip

\* C9 witness: a link was built for a city with characters that need
\* escaping, without an area, for a stay that ends in another month.
C9_Witness ==
  /\ link.stage = "built"
  /\ link.area = NoneText
  /\ \E i \in 1..Len(link.city) : link.city[i] \in {"&", "ARROW", "i_acute"}
  /\ ord2ymd(link.start_date).m # ord2ymd(link.start_date + link.nights).m
  /\ link.nights > 0

\* the settings with the "Nonstop only" checkbox the other way
Toggled(c) == [c EXCEPT !.nonstop_only = ~c.nonstop_only]

\* the title's estimated hours exist and exceed the max-hours setting
OverMaxHours(title, c) ==
  LET hours == ItemHours(TitleFacts[title].code)
  IN  hours # NoneNum /\ hours > c.max_hours

\* a finished row without the two links attached last
WithoutLinks(r) ==
  [k \in DOMAIN r \ {"Flights_Link", "Accommodation_Link"} |-> r[k]]

====
